---- MODULE Spec2Model ----
(***************************************************************************)
(* Model of the Annunciator firmware (Annunciator_code.ino): the playback  *)
(* state machine of loop(), the button debouncer, the LED flasher, the     *)
(* cloud functions and the event callback.                                 *)
(*                                                                         *)
(* A String is a sequence of one-character strings.  millis() is the       *)
(* variable now, an unsigned long: all arithmetic on it is modulo 2^32.    *)
(***************************************************************************)
EXTENDS Integers, Sequences, FiniteSets, TLC

(***************************************************************************)
(* Program constants (Annunciator_code.ino lines 124-132, 224).            *)
(***************************************************************************)
DEFAULT_VOLUME_LEVEL == 70
BUSY_WAIT == 1000
DEBOUNCE_TIME == 10
MAX_MS_TO_REPLAY_A_CLIP == 300000
FIRST_CLIP_NUM == 11
LAST_CLIP_NUM == 15
BLINK_TIME == 100
\* miniMP3Player.volume(30): the device's maximum volume
DEVICE_MAX_VOLUME == 30
\* delay(1000) at the end of setup()
SETUP_DELAY == 1000
\* int, long, unsigned int and unsigned long are 32 bits wide on the Photon
INT_MAX == 2147483647

(***************************************************************************)
(* ClipsList.h is not part of the sources at hand: the table, its base and *)
(* the two designated clips are modelled from the specification (a fixed   *)
(* table indexed by identifier - base, an "error" clip and a "nothing      *)
(* previously announced" clip).                                            *)
(***************************************************************************)
BEGIN_DEV_NUM == 5
MAX_NUM_CLIPS == 8
ERROR_CLIP_NUM == 2
NO_PREVIOUS_ANNOUNCEMENT == 1
clipList == <<11, 12, 13, 14, 15, 16, 17, 18>>

(***************************************************************************)
(* Bounds of the model.                                                    *)
(***************************************************************************)
\* number of clock advances in one behaviour
MaxTicks == 4

(***************************************************************************)
(* Fixed-width arithmetic.  A 32-bit word is held as the integer of        *)
(* INT_MIN..INT_MAX congruent to it modulo 2^32: an int or long as itself, *)
(* an unsigned value u >= 2^31 as u - 2^32.  Sums and differences are      *)
(* formed without leaving that range.                                      *)
(***************************************************************************)
INT_MIN == 0 - INT_MAX - 1

\* a + b modulo 2^32
Add32(a, b) ==
  IF b > 0 /\ a > INT_MAX - b THEN (a - INT_MAX - 1) + (b - INT_MAX - 1)
  ELSE IF b < 0 /\ a < INT_MIN - b THEN (a + INT_MAX + 1) + (b + INT_MAX + 1)
  ELSE a + b

\* a - b modulo 2^32
Sub32(a, b) ==
  IF b < 0 /\ a > INT_MAX + b THEN (a - INT_MAX - 1) - (b + INT_MAX + 1)
  ELSE IF b > 0 /\ a < INT_MIN + b THEN (a + INT_MAX + 1) - (b - INT_MAX - 1)
  ELSE a - b

\* a < b, both read as unsigned
ULess(a, b) ==
  IF (a < 0) = (b < 0) THEN a < b ELSE b < 0

(***************************************************************************)
(* String (the Wiring String class), as far as the program uses it.        *)
(***************************************************************************)
Digits == <<"0", "1", "2", "3", "4", "5", "6", "7", "8", "9">>

IsDigit(c) == \E i \in 1..10 : Digits[i] = c

DigitVal(c) == (CHOOSE i \in 1..10 : Digits[i] = c) - 1

IsSpace(c) == c \in {" ", "\t", "\n", "\r"}

\* whether k occurs in s at the 0-based position i
MatchAt(s, k, i) ==
  /\ i + Len(k) <= Len(s)
  /\ \A j \in 1..Len(k) : s[i + j] = k[j]

\* String::indexOf: the 0-based position of the first occurrence of k, or -1
IndexOf(s, k) ==
  LET hits == {i \in 0..(Len(s) - Len(k)) : MatchAt(s, k, i)}
  IN IF hits = {} THEN -1
     ELSE CHOOSE i \in hits : \A j \in hits : i <= j

\* String::remove(index, count), both unsigned
RemoveCount(s, index, count) ==
  IF ~ULess(index, Len(s)) THEN s
  ELSE IF count = 0 THEN s
  ELSE LET c == IF ULess(Len(s) - index, count) THEN Len(s) - index
                ELSE count
       IN SubSeq(s, 1, index) \o SubSeq(s, index + c + 1, Len(s))

\* String::remove(index): everything from index to the end
RemoveFrom(s, index) ==
  IF ~ULess(index, Len(s)) THEN s
  ELSE RemoveCount(s, index, Len(s) - index)

RECURSIVE SkipSpaces(_)
SkipSpaces(s) ==
  IF s # <<>> /\ IsSpace(Head(s)) THEN SkipSpaces(Tail(s)) ELSE s

\* the digits at the head of s, read as a number that stops at INT_MAX
RECURSIVE ParseDigits(_, _)
ParseDigits(s, acc) ==
  IF s # <<>> /\ IsDigit(Head(s))
  THEN IF acc > (INT_MAX - DigitVal(Head(s))) \div 10
       THEN ParseDigits(Tail(s), INT_MAX)
       ELSE ParseDigits(Tail(s), acc * 10 + DigitVal(Head(s)))
  ELSE acc

\* String::toInt (atol): leading white space, an optional sign, then the
\* digits up to the first other character; 0 when there is no digit
ToInt(s) ==
  LET t == SkipSpaces(s)
      signed == t # <<>> /\ Head(t) \in {"-", "+"}
      m == ParseDigits(IF signed THEN Tail(t) ELSE t, 0)
  IN IF signed /\ Head(t) = "-" THEN 0 - m ELSE m

(***************************************************************************)
(* eventDatParse (lines 327-361).                                          *)
(***************************************************************************)
KeyToken == <<"d", "e", "v", "i", "c", "e", "N", "u", "m", "=">>

\* _indexNum = evData.indexOf("deviceNum="); _indexNum += 10;
\* _indexNum is an unsigned int, so a result of -1 becomes 2^32 - 1 and the
\* addition wraps
KeyEnd(evData) == Add32(IndexOf(evData, KeyToken), 10)

\* evData.remove(0, _indexNum); evData.remove(2);
DeviceField(evData) == RemoveFrom(RemoveCount(evData, 0, KeyEnd(evData)), 2)

\* _devNum = evData.toInt(); return _devNum;   (the long as unsigned int)
eventDatParse(evData) == ToInt(DeviceField(evData))

(***************************************************************************)
(* The pure parts of the cloud functions and of setup().                   *)
(***************************************************************************)
\* a variant: the clamp at 100 left out
VolumeForNoUpperClamp(volume) ==
  IF volume < 0 THEN 0 ELSE volume

\* setVolume, lines 172-179: the value stored for the argument's toInt()
VolumeFor(volume) ==
  IF volume < 0 THEN 0
  ELSE IF volume > 100 THEN 100
  ELSE volume

\* a variant: the lower test against FIRST_CLIP_NUM
ClipForFromFirst(clipNum) ==
  IF clipNum < FIRST_CLIP_NUM THEN FIRST_CLIP_NUM
  ELSE IF clipNum > 256 THEN LAST_CLIP_NUM
  ELSE clipNum

\* playClip, lines 189-198
ClipFor(clipNum) ==
  IF clipNum < 0 THEN FIRST_CLIP_NUM
  ELSE IF clipNum > 256 THEN LAST_CLIP_NUM
  ELSE clipNum

\* clipList[i], i a 0-based index inside the table
ClipAt(i) == clipList[i + 1]

\* triggerDeviceNumber, line 210: devNum -= BEGIN_DEV_NUM  (int)
DeviceIndex(devNum) == Sub32(devNum, BEGIN_DEV_NUM)

\* a variant: > for >=
IndexInTableFromOne(idx) == (idx > 0) /\ (idx < MAX_NUM_CLIPS)

\* triggerDeviceNumber, line 212: the bounds test on the index
IndexInTable(idx) == (idx >= 0) /\ (idx < MAX_NUM_CLIPS)

\* triggerDeviceNumber, lines 208-214: the clip selected for devNum
DeviceClip(devNum) ==
  IF IndexInTable(DeviceIndex(devNum))
  THEN ClipAt(DeviceIndex(devNum))
  ELSE ERROR_CLIP_NUM

\* a variant: the base is not subtracted
EventIndexNoBase(devNumber) == devNumber

\* particleCallbackEventPublish, line 380: _devNumber -= BEGIN_DEV_NUM
\* (unsigned int)
EventIndex(devNumber) == Sub32(devNumber, BEGIN_DEV_NUM)

\* setup(), lines 426-429: the volume taken from the EEPROM word
BootVolume(vol) ==
  IF (vol < 0) \/ (vol > 100) THEN DEFAULT_VOLUME_LEVEL ELSE vol

\* loop(), line 485: (int)(30 * ((float)relativeVolumeControl / 100.0))
PlayerVolume(vol) == (DEVICE_MAX_VOLUME * vol) \div 100

(***************************************************************************)
(* The state.                                                              *)
(***************************************************************************)
VARIABLES
  now,                    \* millis()
  state,                  \* loop(): static StateVariable state
  busyTime,               \* loop(): static unsigned long busyTime
  started,                \* the function-local statics have been initialised
  newClip2Play,
  currentClip,
  greenLEDFlash,
  relativeVolumeControl,
  clipLastPlayedMS,
  eventDataString,
  eeprom,                 \* the int at EEPROM address 0
  timeInState,            \* flashLED(): static unsigned long timeInState
  onOff,                  \* flashLED(): static bool onOff
  greenLed,               \* level of GREEN_LED_PIN
  buttonState,            \* buttonPressed(): static ButtonStates _buttonState
  lastTime,               \* buttonPressed(): static unsigned long lastTime
  buttonPin,              \* level of BUTTON_PIN (LOW: pressed)
  busyPin,                \* level of BUSY_PIN (LOW: the player is playing)
  playerVolume,           \* last miniMP3Player.volume(..)
  playerClip,             \* last miniMP3Player.playMp3Folder(..), -1: none
  \* history variables: they record what happened and steer nothing
  op,                     \* the program's operation that ran last, and
                          \* its argument
  ticks,                  \* clock advances so far
  buttonRet,              \* what the last buttonPressed() returned
  \* a press, as buttonPressed() reads it, is a run of consecutive polls
  \* that read the input asserted; these describe the present run, or the
  \* last one when the input was last read released
  runAge,                 \* ms since the first poll of the run
  runSpan,                \* ms from the first poll of the run to its last
  runTrues,               \* true results during the run
  runFresh,               \* the run began with the monitor in buttonOff
  sincePlay,              \* ms since clipLastPlayedMS was taken
  playCount,              \* play commands since the controller left idle
  requested,              \* a trigger ran since the controller came to idle
  oobRead,                \* the last callback read outside clipList
  volumeAsked,            \* <<v>>: the last setVolume asked for v, over all
                          \* boots; <<>>: there was none
  clipAtLeave,            \* currentClip when the controller last left idle,
                          \* -1: it has not left idle
  sinceStage              \* ms since the controller last took busyTime on
                          \* a change of state, up to BUSY_WAIT

progVars == <<now, state, busyTime, started, newClip2Play, currentClip,
              greenLEDFlash, relativeVolumeControl, clipLastPlayedMS,
              eventDataString, eeprom, timeInState, onOff, greenLed,
              buttonState, lastTime, buttonPin, busyPin, playerVolume,
              playerClip>>

histVars == <<op, ticks, buttonRet, runAge, runSpan, runTrues, runFresh,
              sincePlay, playCount, requested, oobRead, volumeAsked,
              clipAtLeave, sinceStage>>

vars == <<progVars, histVars>>

\* millis() - t in unsigned long arithmetic
Elapsed(t) == Sub32(now, t)

\* a history clock: it counts real milliseconds and stops at cap; d is the
\* unsigned amount that passes
Aged(age, d, cap) == IF d < 0 \/ d > cap - age THEN cap ELSE age + d

Op(name, arg) == [name |-> name, arg |-> arg]

(***************************************************************************)
(* Inputs.                                                                 *)
(***************************************************************************)
\* the arguments of the cloud functions
NumberStrings ==
  { <<"1", "1">>, <<"5">>, <<"1", "2">>, <<"1", "3">>, <<"4">>,
    <<"-", "3">>, <<"2", "5", "0">>, <<"3", "0", "0">>, <<"x">>, <<>> }

\* "message=TESTOK|deviceNum=NN|payload=G"
Message(a, b) ==
  <<"m", "e", "s", "s", "a", "g", "e", "=", "T", "E", "S", "T", "O", "K",
    "|">> \o KeyToken \o <<a, b>> \o
  <<"|", "p", "a", "y", "l", "o", "a", "d", "=", "G">>

\* event payloads: well formed in and out of the table, a non-numeric
\* field, a signed field, no key token at all
EventPayloads ==
  { Message("1", "1"), Message("0", "5"), Message("1", "2"),
    Message("1", "3"), Message("0", "4"), Message("a", "b"),
    Message("-", "1"),
    KeyToken \o <<"9">>,
    <<"s", "e", "n", "s", "o", "r", "=", "o", "k", "1", "1", "|">>,
    <<"h", "e", "l", "l", "o">>,
    <<>> }

\* what a read past the ends of clipList may deliver: any word of memory
StrayWords == {0, ERROR_CLIP_NUM, 65535}

\* what the EEPROM word may hold at boot: erased (all bits set), or a value
\* stored by an earlier run
EepromAtBoot == {-1, 55}

(***************************************************************************)
(* Init: setup() has returned.  It took clipLastPlayedMS at millis() = 0   *)
(* and then waited delay(1000).  The statics of loop(), flashLED() and     *)
(* buttonPressed() take millis() at their first call.  words is what the   *)
(* EEPROM word may hold.                                                   *)
(***************************************************************************)
Boot(words) ==
  /\ now = SETUP_DELAY
  /\ state = "idle"
  /\ busyTime = 0
  /\ started = FALSE
  /\ newClip2Play = FALSE
  /\ currentClip = NO_PREVIOUS_ANNOUNCEMENT
  /\ greenLEDFlash = FALSE
  /\ eeprom \in words
  /\ relativeVolumeControl = BootVolume(eeprom)
  /\ clipLastPlayedMS = 0
  /\ eventDataString = <<>>
  /\ timeInState = 0
  /\ onOff = FALSE
  /\ greenLed = "LOW"
  /\ buttonState = "buttonOff"
  /\ lastTime = 0
  /\ buttonPin = "HIGH"
  /\ busyPin = "HIGH"
  /\ playerVolume = DEVICE_MAX_VOLUME
  /\ playerClip = -1
  /\ op = Op("setup", <<>>)
  /\ ticks = 0
  /\ buttonRet = FALSE
  /\ runAge = 0
  /\ runSpan = 0
  /\ runTrues = 0
  /\ runFresh = FALSE
  /\ sincePlay = SETUP_DELAY
  /\ playCount = 0
  /\ requested = FALSE
  /\ oobRead = FALSE
  /\ volumeAsked = <<>>
  /\ clipAtLeave = -1
  /\ sinceStage = 0

\* any boot
Init == Boot(EepromAtBoot)

\* the boot of a device whose EEPROM is erased
InitErased == Boot({-1})

(***************************************************************************)
(* flashLED (lines 223-243): the new timeInState, onOff and LED level.     *)
(***************************************************************************)
\* a variant: the output is not written while the flag is false
FlashLEDLeftAlone(flash, since, level, led) ==
  IF flash = FALSE
  THEN [timeInState |-> since, onOff |-> level, greenLed |-> led]
  ELSE IF ULess(BLINK_TIME, Elapsed(since))
  THEN IF level = FALSE
       THEN [timeInState |-> now, onOff |-> TRUE, greenLed |-> "HIGH"]
       ELSE [timeInState |-> now, onOff |-> FALSE, greenLed |-> "LOW"]
  ELSE [timeInState |-> since, onOff |-> level, greenLed |-> led]

FlashLED(flash, since, level, led) ==
  IF flash = FALSE
  THEN [timeInState |-> since, onOff |-> level, greenLed |-> "LOW"]
  ELSE IF ULess(BLINK_TIME, Elapsed(since))
  THEN IF level = FALSE
       THEN [timeInState |-> now, onOff |-> TRUE, greenLed |-> "HIGH"]
       ELSE [timeInState |-> now, onOff |-> FALSE, greenLed |-> "LOW"]
  ELSE [timeInState |-> since, onOff |-> level, greenLed |-> led]

(***************************************************************************)
(* buttonPressed (lines 246-317): the new _buttonState and lastTime, and   *)
(* the value returned.                                                     *)
(***************************************************************************)
Button(s, t, r) == [state |-> s, lastTime |-> t, ret |-> r]

\* a variant: > for <
NotYetDebouncedInverted(t) == ULess(DEBOUNCE_TIME, Elapsed(t))

\* lines 269, 292: (millis() - lastTime < DEBOUNCE_TIME)
NotYetDebounced(t) == ULess(Elapsed(t), DEBOUNCE_TIME)

\* case buttonOff, lines 252-261
ButtonOffCase(t, pin) ==
  IF pin = "HIGH" THEN Button("buttonOff", t, FALSE)
  ELSE Button("pressedTentative", now, FALSE)

\* case pressedTentative, lines 263-277
PressedTentativeCase(t, pin) ==
  IF pin = "HIGH" THEN Button("buttonOff", t, FALSE)
  ELSE IF NotYetDebounced(t) THEN Button("pressedTentative", t, FALSE)
  ELSE Button("buttonOn", t, TRUE)

\* case buttonOn, lines 279-288
ButtonOnCase(t, pin) ==
  IF pin = "LOW" THEN Button("buttonOn", t, FALSE)
  ELSE Button("releasedTentative", now, FALSE)

\* a variant: a reading of pressed starts a new press
ReleasedTentativeRestarts(t, pin) ==
  IF pin = "HIGH"
  THEN IF NotYetDebounced(t) THEN Button("releasedTentative", t, FALSE)
       ELSE Button("buttonOff", t, FALSE)
  ELSE Button("pressedTentative", now, FALSE)

\* case releasedTentative, lines 290-304
ReleasedTentativeCase(t, pin) ==
  IF pin = "HIGH"
  THEN IF NotYetDebounced(t) THEN Button("releasedTentative", t, FALSE)
       ELSE Button("buttonOff", t, FALSE)
  ELSE Button("buttonOn", t, FALSE)

\* default, lines 306-314
ButtonDefaultCase(t, pin) ==
  IF pin = "HIGH" THEN Button("buttonOff", t, FALSE)
  ELSE Button("pressedTentative", t, FALSE)

buttonPressed(s, t, pin) ==
  CASE s = "buttonOff" -> ButtonOffCase(t, pin)
    [] s = "pressedTentative" -> PressedTentativeCase(t, pin)
    [] s = "buttonOn" -> ButtonOnCase(t, pin)
    [] s = "releasedTentative" -> ReleasedTentativeCase(t, pin)
    [] OTHER -> ButtonDefaultCase(t, pin)

(***************************************************************************)
(* loop(), lines 452-460: the replay button.                               *)
(***************************************************************************)
\* line 456: (millis() - clipLastPlayedMS) > MAX_MS_TO_REPLAY_A_CLIP
ReplayTooOld == ULess(MAX_MS_TO_REPLAY_A_CLIP, Elapsed(clipLastPlayedMS))

\* currentClip after the button test
ReplayClip(pressed) ==
  IF pressed /\ ReplayTooOld THEN NO_PREVIOUS_ANNOUNCEMENT ELSE currentClip

\* newClip2Play after the button test
ReplayPending(pressed) == IF pressed THEN TRUE ELSE newClip2Play

(***************************************************************************)
(* loop(), lines 463-532: the state machine.  The result holds the         *)
(* variables a case may write; played says that the play command went out. *)
(***************************************************************************)
Stay(st, bt, pending) ==
  [state |-> st, busyTime |-> bt, newClip2Play |-> pending,
   greenLEDFlash |-> greenLEDFlash, clipLastPlayedMS |-> clipLastPlayedMS,
   playerVolume |-> playerVolume, playerClip |-> playerClip,
   played |-> FALSE]

\* a variant: the request flag is not tested
IdleCaseNoRequestTest(bt, pending) ==
  IF busyPin = "HIGH"
  THEN [Stay("triggered", now, pending) EXCEPT !.greenLEDFlash = TRUE]
  ELSE Stay("idle", bt, pending)

\* a variant: a request found while the player is busy is dropped
IdleCaseDropsRequest(bt, pending) ==
  IF busyPin = "HIGH" /\ pending = TRUE
  THEN [Stay("triggered", now, pending) EXCEPT !.greenLEDFlash = TRUE]
  ELSE Stay("idle", bt, FALSE)

\* case idle, lines 464-477
IdleCase(bt, pending) ==
  IF busyPin = "HIGH" /\ pending = TRUE
  THEN [Stay("triggered", now, pending) EXCEPT !.greenLEDFlash = TRUE]
  ELSE Stay("idle", bt, pending)

\* case triggered, lines 479-494
TriggeredCase(bt, pending, clip) ==
  IF ULess(Elapsed(bt), BUSY_WAIT)
  THEN Stay("triggered", bt, pending)
  ELSE [Stay("clipWaiting", bt, pending) EXCEPT
          !.playerVolume = PlayerVolume(relativeVolumeControl),
          !.clipLastPlayedMS = now,
          !.playerClip = clip,
          !.played = TRUE]

\* a variant: the wait for the busy line gives up after BUSY_WAIT
ClipWaitingCaseTimesOut(bt, pending) ==
  IF busyPin = "HIGH"
  THEN IF ULess(Elapsed(clipLastPlayedMS), BUSY_WAIT)
       THEN Stay("clipWaiting", bt, pending)
       ELSE [Stay("idle", bt, FALSE) EXCEPT !.greenLEDFlash = FALSE]
  ELSE Stay("clipPlaying", bt, pending)

\* case clipWaiting, lines 496-502
ClipWaitingCase(bt, pending) ==
  IF busyPin = "HIGH" THEN Stay("clipWaiting", bt, pending)
  ELSE Stay("clipPlaying", bt, pending)

\* a variant: the end of the clip goes straight to clipEnd
ClipPlayingCaseSkips(bt, pending) ==
  IF busyPin = "LOW" THEN Stay("clipPlaying", bt, pending)
  ELSE [Stay("clipEnd", now, pending) EXCEPT !.greenLEDFlash = FALSE]

\* case clipPlaying, lines 504-511
ClipPlayingCase(bt, pending) ==
  IF busyPin = "LOW" THEN Stay("clipPlaying", bt, pending)
  ELSE Stay("clipComplete", now, pending)

\* a variant: no hold
ClipCompleteCaseNoHold(bt, pending) ==
  [Stay("clipEnd", bt, pending) EXCEPT !.greenLEDFlash = FALSE]

\* a variant: the request flag is cleared here
ClipCompleteCaseClears(bt, pending) ==
  IF ULess(Elapsed(bt), BUSY_WAIT)
  THEN Stay("clipComplete", bt, FALSE)
  ELSE [Stay("clipEnd", bt, FALSE) EXCEPT !.greenLEDFlash = FALSE]

\* a variant: greenLEDFlash is left set
ClipCompleteCaseKeepsFlash(bt, pending) ==
  IF ULess(Elapsed(bt), BUSY_WAIT)
  THEN Stay("clipComplete", bt, pending)
  ELSE Stay("clipEnd", bt, pending)

\* case clipComplete, lines 513-520
ClipCompleteCase(bt, pending) ==
  IF ULess(Elapsed(bt), BUSY_WAIT)
  THEN Stay("clipComplete", bt, pending)
  ELSE [Stay("clipEnd", bt, pending) EXCEPT !.greenLEDFlash = FALSE]

\* a variant: the request flag is not cleared
ClipEndKeepsRequest(bt, pending) == Stay("idle", bt, pending)

\* case clipEnd, lines 522-525
ClipEndCase(bt, pending) == Stay("idle", bt, FALSE)

\* default, lines 527-530
DefaultCase(bt, pending) == Stay("idle", bt, FALSE)

Controller(st, bt, pending, clip) ==
  CASE st = "idle" -> IdleCase(bt, pending)
    [] st = "triggered" -> TriggeredCase(bt, pending, clip)
    [] st = "clipWaiting" -> ClipWaitingCase(bt, pending)
    [] st = "clipPlaying" -> ClipPlayingCase(bt, pending)
    [] st = "clipComplete" -> ClipCompleteCase(bt, pending)
    [] st = "clipEnd" -> ClipEndCase(bt, pending)
    [] OTHER -> DefaultCase(bt, pending)

(***************************************************************************)
(* loop() (lines 445-534): one iteration, flashLED() and buttonPressed()   *)
(* included.                                                               *)
(***************************************************************************)
\* the monitor's state after a poll that read the input asserted
InRun == buttonState \in {"pressedTentative", "buttonOn"}

Loop ==
  LET since == IF started THEN timeInState ELSE now
      t0 == IF started THEN lastTime ELSE now
      bt0 == IF started THEN busyTime ELSE now
      led == FlashLED(greenLEDFlash, since, onOff, greenLed)
      btn == buttonPressed(buttonState, t0, buttonPin)
      c == Controller(state, bt0, ReplayPending(btn.ret), ReplayClip(btn.ret))
      low == buttonPin = "LOW"
      newRun == low /\ ~InRun
  IN /\ started' = TRUE
     /\ timeInState' = led.timeInState
     /\ onOff' = led.onOff
     /\ greenLed' = led.greenLed
     /\ buttonState' = btn.state
     /\ lastTime' = btn.lastTime
     /\ currentClip' = ReplayClip(btn.ret)
     /\ state' = c.state
     /\ busyTime' = c.busyTime
     /\ newClip2Play' = c.newClip2Play
     /\ greenLEDFlash' = c.greenLEDFlash
     /\ clipLastPlayedMS' = c.clipLastPlayedMS
     /\ playerVolume' = c.playerVolume
     /\ playerClip' = c.playerClip
     /\ UNCHANGED <<now, relativeVolumeControl, eventDataString, eeprom,
                    buttonPin, busyPin>>
     /\ op' = Op("loop", <<>>)
     /\ buttonRet' = btn.ret
     /\ runAge' = IF newRun THEN 0 ELSE runAge
     /\ runSpan' = IF newRun THEN 0 ELSE IF low THEN runAge ELSE runSpan
     /\ runTrues' = IF newRun THEN 0
                    ELSE IF btn.ret THEN Aged(runTrues, 1, 2)
                    ELSE runTrues
     /\ runFresh' = IF newRun THEN buttonState = "buttonOff" ELSE runFresh
     /\ sincePlay' = IF c.played THEN 0 ELSE sincePlay
     /\ playCount' = IF state = "idle" /\ c.state # "idle" THEN 0
                     ELSE IF c.played THEN Aged(playCount, 1, 2)
                     ELSE playCount
     /\ requested' = IF state # "idle" /\ c.state = "idle" THEN FALSE
                     ELSE (requested \/ btn.ret)
     /\ clipAtLeave' = IF state = "idle" /\ c.state # "idle"
                       THEN ReplayClip(btn.ret)
                       ELSE clipAtLeave
     /\ sinceStage' = IF \/ state = "idle" /\ c.state = "triggered"
                         \/ state = "clipPlaying" /\ c.state = "clipComplete"
                      THEN 0
                      ELSE sinceStage
     /\ UNCHANGED <<ticks, oobRead, volumeAsked>>

(***************************************************************************)
(* The cloud functions and the event callback.  The Device OS runs them    *)
(* between two iterations of loop().                                       *)
(***************************************************************************)
\* a variant: the value is not put into the EEPROM
SetVolumeNotStored(inputs) ==
  \E volumeControl \in inputs :
    /\ relativeVolumeControl' = VolumeFor(ToInt(volumeControl))
    /\ op' = Op("setVolume", volumeControl)
    /\ volumeAsked' = <<ToInt(volumeControl)>>
    /\ UNCHANGED <<now, state, busyTime, started, newClip2Play, currentClip,
                   greenLEDFlash, clipLastPlayedMS, eventDataString, eeprom,
                   timeInState, onOff, greenLed, buttonState, lastTime,
                   buttonPin, busyPin, playerVolume, playerClip>>
    /\ UNCHANGED <<ticks, buttonRet, runAge, runSpan, runTrues, runFresh,
                   sincePlay, playCount, requested, oobRead, clipAtLeave,
                   sinceStage>>

\* setVolume, lines 171-185
SetVolume(inputs) ==
  \E volumeControl \in inputs :
    /\ relativeVolumeControl' = VolumeFor(ToInt(volumeControl))
    /\ eeprom' = relativeVolumeControl'
    /\ op' = Op("setVolume", volumeControl)
    /\ volumeAsked' = <<ToInt(volumeControl)>>
    /\ UNCHANGED <<now, state, busyTime, started, newClip2Play, currentClip,
                   greenLEDFlash, clipLastPlayedMS, eventDataString,
                   timeInState, onOff, greenLed, buttonState, lastTime,
                   buttonPin, busyPin, playerVolume, playerClip>>
    /\ UNCHANGED <<ticks, buttonRet, runAge, runSpan, runTrues, runFresh,
                   sincePlay, playCount, requested, oobRead, clipAtLeave,
                   sinceStage>>

\* what a trigger leaves alone
TriggerFrame ==
  /\ UNCHANGED <<now, state, busyTime, started, greenLEDFlash,
                 relativeVolumeControl, clipLastPlayedMS, eeprom,
                 timeInState, onOff, greenLed, buttonState, lastTime,
                 buttonPin, busyPin, playerVolume, playerClip>>
  /\ UNCHANGED <<ticks, buttonRet, runAge, runSpan, runTrues, runFresh,
                 sincePlay, playCount, volumeAsked, clipAtLeave,
                 sinceStage>>

\* playClip, lines 188-203
PlayClip(inputs) ==
  \E clipNumber \in inputs :
    /\ currentClip' = ClipFor(ToInt(clipNumber))
    /\ newClip2Play' = TRUE
    /\ op' = Op("playClip", clipNumber)
    /\ requested' = TRUE
    /\ UNCHANGED <<eventDataString, oobRead>>
    /\ TriggerFrame

\* triggerDeviceNumber, lines 206-219
TriggerDeviceNumber(inputs) ==
  \E deviceNumber \in inputs :
    /\ currentClip' = DeviceClip(ToInt(deviceNumber))
    /\ newClip2Play' = TRUE
    /\ op' = Op("triggerDeviceNumber", deviceNumber)
    /\ requested' = TRUE
    /\ UNCHANGED <<eventDataString, oobRead>>
    /\ TriggerFrame

\* particleCallbackEventPublish, line 383: clipList[_devNumber], with no
\* test of the index: outside the table the read is undefined, and delivers
\* whatever word lies there
EventClips(idx) ==
  IF ULess(idx, MAX_NUM_CLIPS) THEN {ClipAt(idx)} ELSE StrayWords

\* particleCallbackEventPublish, lines 366-386
ParticleCallbackEventPublish(inputs) ==
  \E data \in inputs :
    LET idx == EventIndex(eventDatParse(data))
    IN \E word \in EventClips(idx) :
         /\ eventDataString' = data
         /\ currentClip' = word
         /\ newClip2Play' = TRUE
         /\ oobRead' = ~ULess(idx, MAX_NUM_CLIPS)
         /\ op' = Op("particleCallbackEventPublish", data)
         /\ requested' = TRUE
         /\ TriggerFrame

(***************************************************************************)
(* A reset: the globals and the statics take their initial values again,   *)
(* the clock restarts and setup() (lines 391-441) runs.  The EEPROM word   *)
(* and the two input lines are what they were.                             *)
(***************************************************************************)
Setup ==
  /\ now' = SETUP_DELAY
  /\ state' = "idle"
  /\ busyTime' = 0
  /\ started' = FALSE
  /\ newClip2Play' = FALSE
  /\ currentClip' = NO_PREVIOUS_ANNOUNCEMENT
  /\ greenLEDFlash' = FALSE
  /\ relativeVolumeControl' = BootVolume(eeprom)
  /\ clipLastPlayedMS' = 0
  /\ eventDataString' = <<>>
  /\ timeInState' = 0
  /\ onOff' = FALSE
  /\ greenLed' = "LOW"
  /\ buttonState' = "buttonOff"
  /\ lastTime' = 0
  /\ playerVolume' = DEVICE_MAX_VOLUME
  /\ playerClip' = -1
  /\ op' = Op("setup", <<>>)
  /\ buttonRet' = FALSE
  /\ runAge' = 0
  /\ runSpan' = 0
  /\ runTrues' = 0
  /\ runFresh' = FALSE
  /\ sincePlay' = SETUP_DELAY
  /\ playCount' = 0
  /\ requested' = FALSE
  /\ oobRead' = FALSE
  /\ clipAtLeave' = -1
  /\ sinceStage' = 0
  /\ UNCHANGED <<eeprom, buttonPin, busyPin, ticks, volumeAsked>>

(***************************************************************************)
(* The environment: the clock, the button and the player's busy line.      *)
(***************************************************************************)
\* d milliseconds pass (d an unsigned amount)
Advance(d) ==
  /\ now' = Add32(now, d)
  /\ runAge' = IF InRun THEN Aged(runAge, d, DEBOUNCE_TIME) ELSE runAge
  /\ sincePlay' = Aged(sincePlay, d, MAX_MS_TO_REPLAY_A_CLIP + 1)
  /\ sinceStage' = Aged(sinceStage, d, BUSY_WAIT)
  /\ UNCHANGED <<state, busyTime, started, newClip2Play, currentClip,
                 greenLEDFlash, relativeVolumeControl, clipLastPlayedMS,
                 eventDataString, eeprom, timeInState, onOff, greenLed,
                 buttonState, lastTime, buttonPin, busyPin, playerVolume,
                 playerClip>>
  /\ UNCHANGED <<buttonRet, runSpan, runTrues, runFresh, playCount,
                 requested, oobRead, volumeAsked, clipAtLeave>>

\* the clock advances, at most MaxTicks times
Tick(d) ==
  /\ ticks < MaxTicks
  /\ ticks' = ticks + 1
  /\ Advance(d)
  /\ UNCHANGED op

EnvFrame ==
  /\ UNCHANGED <<now, state, busyTime, started, newClip2Play, currentClip,
                 greenLEDFlash, relativeVolumeControl, clipLastPlayedMS,
                 eventDataString, eeprom, timeInState, onOff, greenLed,
                 buttonState, lastTime, playerVolume, playerClip>>
  /\ UNCHANGED histVars

\* the button goes down
ButtonDown ==
  /\ buttonPin = "HIGH"
  /\ buttonPin' = "LOW"
  /\ UNCHANGED busyPin
  /\ EnvFrame

\* the button comes up
ButtonUp ==
  /\ buttonPin = "LOW"
  /\ buttonPin' = "HIGH"
  /\ UNCHANGED busyPin
  /\ EnvFrame

\* the busy line goes low (the player reports that it plays)
BusyAssert ==
  /\ busyPin = "HIGH"
  /\ busyPin' = "LOW"
  /\ UNCHANGED buttonPin
  /\ EnvFrame

\* the busy line goes high
BusyClear ==
  /\ busyPin = "LOW"
  /\ busyPin' = "HIGH"
  /\ UNCHANGED buttonPin
  /\ EnvFrame

(***************************************************************************)
(* Specifications.  Each one runs loop() against a part of the             *)
(* environment, so that the part of the program it is about is explored    *)
(* with all of its inputs.                                                 *)
(***************************************************************************)
\* The trigger surface: the cloud functions and the event callback with all
\* their inputs, between iterations of loop(), and resets.
SurfaceNext ==
  \/ Loop
  \/ SetVolume(NumberStrings)
  \/ PlayClip(NumberStrings)
  \/ TriggerDeviceNumber(NumberStrings)
  \/ ParticleCallbackEventPublish(EventPayloads)
  \/ Setup

Spec == Init /\ [][SurfaceNext]_vars

\* The button: loop() against every sequence of presses, releases and
\* clock advances, with the player idle.
ButtonSteps == {1, DEBOUNCE_TIME - 1, DEBOUNCE_TIME}

ButtonTick == \E d \in ButtonSteps : Tick(d)

ButtonNext ==
  \/ Loop
  \/ ButtonTick
  \/ ButtonDown
  \/ ButtonUp

ButtonSpec == InitErased /\ [][ButtonNext]_vars

\* The playback controller: loop() against the clock, the busy line and
\* requests from two of the cloud functions.
ControlSteps == {1, BUSY_WAIT - 1, BUSY_WAIT}

ControlTick == \E d \in ControlSteps : Tick(d)

ControlNext ==
  \/ Loop
  \/ ControlTick
  \/ BusyAssert
  \/ BusyClear
  \/ PlayClip({<<"1", "2">>})
  \/ TriggerDeviceNumber({<<"1", "1">>})

ControlSpec == InitErased /\ [][ControlNext]_vars

\* The replay button over long times: the clock advances by the debounce
\* time, by the replay limit, or by 2^32 - 1 ms (49.7 days; -1 as a word).
ReplaySteps == {DEBOUNCE_TIME, MAX_MS_TO_REPLAY_A_CLIP, 0 - 1}

ReplayTick == \E d \in ReplaySteps : Tick(d)

ReplayNext ==
  \/ Loop
  \/ ReplayTick
  \/ ButtonDown
  \/ ButtonUp
  \/ TriggerDeviceNumber({<<"1", "1">>})

ReplaySpec == InitErased /\ [][ReplayNext]_vars

\* The owners of the shared variables: every entry point, with one input
\* each, at every point of the playback cycle.
FrameTick == Tick(BUSY_WAIT)

FrameNext ==
  \/ Loop
  \/ FrameTick
  \/ BusyAssert
  \/ BusyClear
  \/ SetVolume({<<"5">>})
  \/ PlayClip({<<"1", "2">>})
  \/ TriggerDeviceNumber({<<"1", "1">>})
  \/ ParticleCallbackEventPublish({Message("0", "5")})

FrameSpec == InitErased /\ [][FrameNext]_vars

\* The playback cycle under fair scheduling, with no bound on the clock.
\* loop() runs again and again (weak fairness) and runs between any two
\* advances of the clock, so that no whole period of the clock passes
\* unseen; time does advance (strong fairness: a cloud function may run
\* between loop() and the advance).  The player pulls the
\* busy line low after the play command and releases it once the controller
\* has seen it low.  The clock advances by a quarter of its range, which
\* keeps its values finite in number; every hold time elapses in one step.
LiveStep == (INT_MAX \div 2) + 1

LiveTick ==
  /\ op.name = "loop"
  /\ op' = Op("millis", <<>>)
  /\ UNCHANGED ticks
  /\ Advance(LiveStep)

PlayerStarts ==
  /\ state = "clipWaiting"
  /\ BusyAssert

PlayerStops ==
  /\ state = "clipPlaying"
  /\ BusyClear

LiveNext ==
  \/ Loop
  \/ LiveTick
  \/ PlayerStarts
  \/ PlayerStops
  \/ PlayClip({<<"1", "2">>})
  \/ TriggerDeviceNumber({<<"1", "1">>})

LiveSpec ==
  /\ InitErased
  /\ [][LiveNext]_vars
  /\ WF_vars(Loop)
  /\ SF_vars(LiveTick)
  /\ WF_vars(PlayerStarts)
  /\ WF_vars(PlayerStops)

\* Requests during a cycle: the button and the three triggers (all for the
\* clip of device 11) at every point of the playback cycle, the player
\* driving the busy line as in LiveSpec.
AbsorbTick == Tick(BUSY_WAIT)

AbsorbNext ==
  \/ Loop
  \/ AbsorbTick
  \/ PlayerStarts
  \/ PlayerStops
  \/ ButtonDown
  \/ ButtonUp
  \/ TriggerDeviceNumber({<<"1", "1">>})
  \/ PlayClip({<<"1", "7">>})
  \/ ParticleCallbackEventPublish({Message("1", "1")})

AbsorbSpec == InitErased /\ [][AbsorbNext]_vars

(***************************************************************************)
(* The claims.                                                             *)
(***************************************************************************)

\* C1: from idle with the busy line free and a request pending, repeated
\* runs of loop() bring the controller to clipEnd, and from clipEnd to idle
\* with newClip2Play cleared (the clock advancing, the player asserting and
\* then releasing the busy line).
C1_CycleCompletes ==
  /\ (state = "idle" /\ busyPin = "HIGH" /\ newClip2Play = TRUE)
        ~> (state = "clipEnd")
  /\ (state = "clipEnd") ~> (state = "idle" /\ newClip2Play = FALSE)

\* a cycle has run: the clip was commanded, the controller is back in idle
\* and the request is cleared
C1_Witness ==
  /\ state = "idle"
  /\ newClip2Play = FALSE
  /\ playCount = 1
  /\ playerClip # -1

\* C2: one request, one play.  Between leaving idle and coming back the
\* play command goes out exactly once (none while in triggered, one from
\* clipWaiting on), and the controller is outside idle only if a trigger
\* raised a request after it last came back to idle.
C2_OnePlayPerRequest ==
  /\ state = "triggered" => playCount = 0
  /\ state \in {"clipWaiting", "clipPlaying", "clipComplete", "clipEnd"}
        => playCount = 1
  /\ state = "idle" => playCount <= 1
  /\ state # "idle" => requested

\* back in idle after a cycle with its one play, no new request yet
C2_Witness ==
  /\ state = "idle"
  /\ playCount = 1
  /\ requested = FALSE
  /\ op.name = "loop"

\* C3 as stated: every press held for the debounce time or longer (a run of
\* polls reading the input asserted, first and last at least 10 ms apart)
\* has had exactly one true result, and no press has more than one.
C3_OncePerPress ==
  /\ runTrues <= 1
  /\ runSpan >= DEBOUNCE_TIME => runTrues = 1

\* C3 as amended: a press that begins with the monitor in buttonOff has had
\* exactly one true result once a poll has read it 10 ms or more after the
\* first; before that, and for a press that begins before the release of the
\* one before is confirmed, there is none; and a true result comes only from
\* the poll that moves the monitor to buttonOn.
C3_OncePerConfirmedPress ==
  /\ runTrues <= 1
  /\ (runFresh /\ runSpan >= DEBOUNCE_TIME) => runTrues = 1
  /\ (~runFresh \/ runSpan < DEBOUNCE_TIME) => runTrues = 0
  /\ buttonRet => (runFresh /\ runSpan >= DEBOUNCE_TIME
                     /\ buttonState = "buttonOn")

\* the press goes on after the poll that confirmed it, and that poll's true
\* is the only one
C3_Witness ==
  /\ buttonState = "buttonOn"
  /\ buttonPin = "LOW"
  /\ buttonRet = FALSE
  /\ runFresh
  /\ runTrues = 1

C5_ReplayByElapsedTime ==
  [][(Loop /\ buttonRet')
       => /\ currentClip' = IF sincePlay > MAX_MS_TO_REPLAY_A_CLIP
                            THEN NO_PREVIOUS_ANNOUNCEMENT
                            ELSE currentClip
          /\ state # "clipEnd" => newClip2Play' = TRUE]_vars

\* C6: triggerDeviceNumber selects clipList[id - BEGIN_DEV_NUM] when
\* 0 <= id - BEGIN_DEV_NUM < MAX_NUM_CLIPS and ERROR_CLIP_NUM otherwise, and
\* raises the request flag either way.
C6_DeviceTrigger ==
  op.name = "triggerDeviceNumber" =>
    LET id == ToInt(op.arg)
    IN /\ newClip2Play = TRUE
       /\ currentClip = IF 0 <= id - BEGIN_DEV_NUM
                           /\ id - BEGIN_DEV_NUM < MAX_NUM_CLIPS
                        THEN clipList[id - BEGIN_DEV_NUM + 1]
                        ELSE ERROR_CLIP_NUM

\* identifier 11 has selected the seventh entry of the table
C6_Witness ==
  /\ op.name = "triggerDeviceNumber"
  /\ ToInt(op.arg) = 11
  /\ currentClip = clipList[7]
  /\ newClip2Play = TRUE

\* C7: the event callback does what triggerDeviceNumber does on the parsed
\* identifier: the table entry inside the bounds, the error clip outside,
\* no read outside the table, the request flag raised.
C7_CallbackAsDeviceTrigger ==
  op.name = "particleCallbackEventPublish" =>
    /\ oobRead = FALSE
    /\ newClip2Play = TRUE
    /\ currentClip = DeviceClip(eventDatParse(eventDataString))

\* the two characters after the key token, when there are two
FieldChars(data) ==
  LET k == IndexOf(data, KeyToken)
  IN IF k >= 0 /\ k + Len(KeyToken) + 2 <= Len(data)
     THEN SubSeq(data, k + Len(KeyToken) + 1, k + Len(KeyToken) + 2)
     ELSE <<>>

\* the key token is absent, or neither character after it is a digit
Malformed(data) ==
  \/ IndexOf(data, KeyToken) = -1
  \/ /\ Len(FieldChars(data)) = 2
     /\ ~IsDigit(FieldChars(data)[1])
     /\ ~IsDigit(FieldChars(data)[2])

\* C8: eventDatParse returns 0 for a payload without the key token and for
\* one whose two characters after the token are not numeric.
C8_MalformedParsesToZero ==
  (op.name = "particleCallbackEventPublish" /\ Malformed(eventDataString))
    => eventDatParse(eventDataString) = 0

\* C9: for "message=TESTOK|deviceNum=NN|payload=..." with
\* 0 <= NN - BEGIN_DEV_NUM < MAX_NUM_CLIPS the callback leaves the clip and
\* the request flag that triggerDeviceNumber leaves for NN.
C9_EventAsDeviceTrigger ==
  \A a \in 0..9 : \A b \in 0..9 :
    (/\ op.name = "particleCallbackEventPublish"
     /\ eventDataString = Message(Digits[a + 1], Digits[b + 1])
     /\ 0 <= 10 * a + b - BEGIN_DEV_NUM
     /\ 10 * a + b - BEGIN_DEV_NUM < MAX_NUM_CLIPS)
      => /\ currentClip = DeviceClip(10 * a + b)
         /\ newClip2Play = TRUE

\* the payload of the example, deviceNum=11, has selected the clip of 11
C9_Witness ==
  /\ op.name = "particleCallbackEventPublish"
  /\ eventDataString = Message("1", "1")
  /\ currentClip = clipList[7]
  /\ newClip2Play = TRUE

\* C10: setVolume(v) stores 0 for v < 0, 100 for v > 100 and v otherwise,
\* and the stored volume is within 0..100 in every state.
C10_VolumeClamp ==
  /\ relativeVolumeControl \in 0..100
  /\ op.name = "setVolume" =>
       LET v == ToInt(op.arg)
       IN relativeVolumeControl =
            IF v < 0 THEN 0 ELSE IF v > 100 THEN 100 ELSE v

\* an input above 100 was stored as 100
C10_Witness ==
  /\ op.name = "setVolume"
  /\ ToInt(op.arg) > 100
  /\ relativeVolumeControl = 100

\* C11: setVolume writes the clamped value to the EEPROM in the same call;
\* after any calls of setVolume and a reset the volume is the clamp of the
\* last input; a word outside 0..100 at boot gives the default 70.
C11_VolumePersists ==
  LET Clamp(v) == IF v < 0 THEN 0 ELSE IF v > 100 THEN 100 ELSE v
  IN /\ volumeAsked # <<>> => eeprom = Clamp(volumeAsked[1])
     /\ (op.name = "setup" /\ volumeAsked # <<>>)
          => relativeVolumeControl = Clamp(volumeAsked[1])
     /\ (op.name = "setup" /\ eeprom \notin 0..100)
          => relativeVolumeControl = DEFAULT_VOLUME_LEVEL

\* a reset after setVolume("250") and other operations: the volume is 100
C11_Witness ==
  /\ op.name = "setup"
  /\ volumeAsked = <<250>>
  /\ relativeVolumeControl = 100

C13_OffWhenDisabled ==
  /\ [](state = "idle" => greenLed = "LOW")
  /\ []((greenLEDFlash = FALSE /\ state # "clipEnd") => greenLed = "LOW")
  /\ [][(Loop /\ greenLEDFlash = FALSE) => greenLed' = "LOW"]_vars

\* the LED was lit when the flag fell and the next poll put it out: the
\* controller is back in idle, the blink state still says lit
C13_Witness ==
  /\ state = "idle"
  /\ greenLEDFlash = FALSE
  /\ greenLed = "LOW"
  /\ onOff = TRUE

\* C14: the tracked level onOff equals the level of the green LED in every
\* state (the forcing-off resets the blink state), so that the first toggle
\* of an enabled period lights the LED.
C14_TrackedLevelIsOutput ==
  (onOff = TRUE) <=> (greenLed = "HIGH")

\* C15: the clip passed to the play command is the value that currentClip
\* had when the controller left idle, whatever was written to currentClip
\* later in the cycle.
C15_ClipLatchedOnLeavingIdle ==
  state \in {"clipWaiting", "clipPlaying", "clipComplete", "clipEnd"}
    => playerClip = clipAtLeave

\* the one change of state that each state of the controller allows
NextInOrder ==
  { <<"idle", "triggered">>, <<"triggered", "clipWaiting">>,
    <<"clipWaiting", "clipPlaying">>, <<"clipPlaying", "clipComplete">>,
    <<"clipComplete", "clipEnd">>, <<"clipEnd", "idle">> }

\* C16: the controller's state changes only in loop(), only along idle ->
\* triggered -> clipWaiting -> clipPlaying -> clipComplete -> clipEnd ->
\* idle and one step at a time; clipWaiting is left only by an iteration
\* that reads the busy line LOW, clipPlaying only by one that reads it HIGH.
C16_StateOrder ==
  [][(state' # state) =>
       /\ Loop
       /\ <<state, state'>> \in NextInOrder
       /\ state = "clipWaiting" => busyPin = "LOW"
       /\ state = "clipPlaying" => busyPin = "HIGH"]_vars

\* the last step of the order has been taken: a cycle has gone through
\* clipEnd and the controller is in idle again, the clip commanded
C16_Witness ==
  /\ state = "idle"
  /\ clipAtLeave # -1
  /\ playerClip # -1
  /\ greenLEDFlash = FALSE
  /\ sinceStage = BUSY_WAIT

C18_HoldDurations ==
  [][/\ (Loop /\ state = "triggered" /\ state' # "triggered")
          => sinceStage >= BUSY_WAIT
     /\ (playerClip' # playerClip \/ clipLastPlayedMS' # clipLastPlayedMS)
          => (state = "triggered" /\ sinceStage >= BUSY_WAIT)
     /\ (Loop /\ state = "clipComplete" /\ state' # "clipComplete")
          => sinceStage >= BUSY_WAIT
     /\ (greenLEDFlash = TRUE /\ greenLEDFlash' = FALSE)
          => (state = "clipComplete" /\ sinceStage >= BUSY_WAIT)]_vars

\* loop() has run 999 ms into the lead-out: the controller holds
C18_Witness ==
  /\ state = "clipComplete"
  /\ sinceStage = BUSY_WAIT - 1
  /\ greenLEDFlash = TRUE
  /\ timeInState = now

\* C19: while no iteration of loop() reads the busy line LOW the
\* controller stays in clipWaiting, with the request flag true and
\* greenLEDFlash true; the only way out of clipWaiting is to clipPlaying, by
\* an iteration that reads the line LOW, however much time passes.
C19_WaitsForBusy ==
  /\ [](state = "clipWaiting"
          => (newClip2Play = TRUE /\ greenLEDFlash = TRUE))
  /\ [][(Loop /\ state = "clipWaiting" /\ busyPin = "HIGH")
          => state' = "clipWaiting"]_vars
  /\ [][(state = "clipWaiting" /\ state' # "clipWaiting")
          => (Loop /\ busyPin = "LOW" /\ state' = "clipPlaying")]_vars

\* two seconds after the play command the busy line is still high and the
\* controller still waits
C19_Witness ==
  /\ state = "clipWaiting"
  /\ busyPin = "HIGH"
  /\ sincePlay >= 2 * BUSY_WAIT
  /\ timeInState = now
  /\ newClip2Play = TRUE
  /\ greenLEDFlash = TRUE

C21_FlagsFollowState ==
  /\ (greenLEDFlash = TRUE)
       <=> (state \in {"triggered", "clipWaiting", "clipPlaying",
                       "clipComplete"})
  /\ state # "idle" => newClip2Play = TRUE

\* a trigger ran with the controller in clipEnd: the LED flag is down and
\* the request flag is up
C21_Witness ==
  /\ state = "clipEnd"
  /\ op.name = "triggerDeviceNumber"
  /\ greenLEDFlash = FALSE
  /\ newClip2Play = TRUE

\* C22: a request raised during a cycle is absorbed.  The controller
\* leaves idle only on a trigger that ran while it was in idle (since it
\* came there), a play command goes out only as the first one since idle
\* was left, the iteration that runs clipEnd goes to idle with the request
\* flag cleared, also when its own button test confirms a press, and in
\* idle the flag is up only if a trigger ran in idle.
C22_RequestsAbsorbed ==
  /\ []((state = "idle" /\ newClip2Play = TRUE) => requested)
  /\ [][(Loop /\ state = "idle" /\ state' # "idle")
          => (requested \/ buttonRet')]_vars
  /\ [][(playerClip' # playerClip \/ clipLastPlayedMS' # clipLastPlayedMS)
          => (Loop /\ state = "triggered" /\ playCount = 0)]_vars
  /\ [][(Loop /\ state = "clipEnd")
          => (state' = "idle" /\ newClip2Play' = FALSE)]_vars

\* the iteration that ran clipEnd confirmed a press: the controller is in
\* idle with nothing pending, after the one play of the cycle
C22_Witness ==
  /\ state = "idle"
  /\ buttonRet = TRUE
  /\ newClip2Play = FALSE
  /\ playCount = 1

====
